---- MODULE Spec2Model ----
(***************************************************************************)
(* Model of src/app.py (soccer picks feed): the pick segmenter             *)
(* (extract_bet_segments), the canonicalizer (normalize_pick), the         *)
(* aggregator (aggregate_picks_by_votes), and the scrape / load / serve    *)
(* glue around comments.json.                                              *)
(*                                                                         *)
(* A Python str is modelled as a sequence of one-character strings, so     *)
(* that slicing, searching, lowercasing and regular-expression matching    *)
(* are computed, character by character, as the code computes them.        *)
(***************************************************************************)
EXTENDS Integers, Sequences, FiniteSets, TLC

VARIABLES
    \* --- text pipeline (extract_bet_segments / normalize_pick) ---
    tpc,        \* "line", "segmented", "keyed" or "direct"
    line,       \* the input line (or the phrase given directly to normalize_pick)
    segments,   \* result of extract_bet_segments(line)
    keys,       \* keys[i] = normalize_pick(segments[i])
    \* --- aggregator (aggregate_picks_by_votes) ---
    hashseed,   \* the process's str-hash seed (fixes the iteration order of sets)
    comments,   \* the comment list handed to aggregate_picks_by_votes
    comments0,  \* the comment list as it was before the first invocation
    pick_data,  \* the accumulator as the last invocation left it
    outs,       \* outs[i] = list of cards returned by the i-th invocation
    \* --- comments.json, the scraper thread and a request ---
    fmode,      \* "missing", "ok" (a regular readable file) or "denied"
    file,       \* content of comments.json, a sequence of JSON tokens
    damaged,    \* TRUE while the content is broken for another reason than a refresh in progress
    spc,        \* scraper thread position: "fetch", "open", "dump", "sleep"
    sdata,      \* the payload r.json() returned to the scraper
    swritten,   \* number of tokens of sdata the scraper has written so far
    sres,       \* last value returned by scrape_reddit: "none", "True", "False"
    rpc,        \* request position: "idle", "exists", "open", "read", "parse", "done"
    rbuf,       \* what the request has read from comments.json so far
    roff,       \* the request's file offset
    rdamaged,   \* TRUE once the request opened or read the file while it was damaged
    rfound,     \* what the request found at comments.json: "none", "missing", "denied", "ok"
    resp        \* the response of the last finished request

textvars == <<tpc, line, segments, keys>>
aggvars  == <<hashseed, comments, comments0, pick_data, outs>>
filevars == <<fmode, file, damaged, spc, sdata, swritten, sres, rpc, rbuf, roff, rdamaged,
              rfound, resp>>
vars == <<textvars, aggvars, filevars>>

----------------------------------------------------------------------------
(* Characters and Python str methods                                       *)

UpperLetters == <<"A","B","C","D","E","F","G","H","I","J","K","L","M",
                  "N","O","P","Q","R","S","T","U","V","W","X","Y","Z">>
LowerLetters == <<"a","b","c","d","e","f","g","h","i","j","k","l","m",
                  "n","o","p","q","r","s","t","u","v","w","x","y","z">>

Range(f) == {f[i] : i \in DOMAIN f}

\* the en dash of the patterns, one character
EnDash == "en-dash"

AZ == Range(UpperLetters)
az == Range(LowerLetters)
Digit == {"0","1","2","3","4","5","6","7","8","9"}
\* \s, and what str.strip() / str.split() treat as whitespace
WS == {" ", "\t", "\n", "\r"}

\* str.lower() on one character
LowerChar(c) ==
    IF c \in AZ THEN LowerLetters[CHOOSE i \in DOMAIN UpperLetters : UpperLetters[i] = c]
    ELSE c

UpperChar(c) ==
    IF c \in az THEN UpperLetters[CHOOSE i \in DOMAIN LowerLetters : LowerLetters[i] = c]
    ELSE c

\* str.lower()
Lower(s) == [i \in DOMAIN s |-> LowerChar(s[i])]

RECURSIVE LStrip(_)
LStrip(s) == IF s # <<>> /\ Head(s) \in WS THEN LStrip(Tail(s)) ELSE s

RECURSIVE RStrip(_)
RStrip(s) == IF s # <<>> /\ s[Len(s)] \in WS THEN RStrip(SubSeq(s, 1, Len(s) - 1)) ELSE s

\* str.strip()
Strip(s) == RStrip(LStrip(s))

\* s[a:b) as Python slices it, 1-based start a, exclusive end b
Slice(s, a, b) == SubSeq(s, a, b - 1)

\* s.startswith(t, p) with p 1-based
StartsAt(s, t, p) == p + Len(t) - 1 <= Len(s) /\ Slice(s, p, p + Len(t)) = t

\* t in s
Contains(s, t) == \E p \in 1..(Len(s) + 1) : StartsAt(s, t, p)

\* s.replace(t, <<>>): every non-overlapping occurrence of t, scanning left to right
RECURSIVE RemoveAll(_, _)
RemoveAll(s, t) ==
    IF s = <<>> THEN <<>>
    ELSE IF StartsAt(s, t, 1) THEN RemoveAll(Slice(s, Len(t) + 1, Len(s) + 1), t)
    ELSE <<Head(s)>> \o RemoveAll(Tail(s), t)

\* s.split(sep) for a one-character sep: the pieces between the separators
RECURSIVE SplitOn(_, _)
SplitOn(s, sep) ==
    IF \A i \in DOMAIN s : s[i] # sep THEN <<s>>
    ELSE LET k == CHOOSE i \in DOMAIN s : s[i] = sep /\ \A j \in 1..(i - 1) : s[j] # sep
         IN <<Slice(s, 1, k)>> \o SplitOn(Slice(s, k + 1, Len(s) + 1), sep)

\* s.split(): the maximal runs of non-whitespace
RECURSIVE SplitWS(_)
SplitWS(s) ==
    LET t == LStrip(s) IN
    IF t = <<>> THEN <<>>
    ELSE LET n == IF \E i \in DOMAIN t : t[i] \in WS
                  THEN (CHOOSE i \in DOMAIN t : t[i] \in WS /\ \A j \in 1..(i - 1) : t[j] \notin WS) - 1
                  ELSE Len(t)
         IN <<Slice(t, 1, n + 1)>> \o SplitWS(Slice(t, n + 1, Len(t) + 1))

\* sep.join(parts)
RECURSIVE Join(_, _)
Join(parts, sep) ==
    IF parts = <<>> THEN <<>>
    ELSE IF Len(parts) = 1 THEN parts[1]
    ELSE parts[1] \o sep \o Join(Tail(parts), sep)

\* "Deduplicate while preserving order"
RECURSIVE Dedupe(_)
Dedupe(xs) ==
    IF xs = <<>> THEN <<>>
    ELSE LET front == Dedupe(SubSeq(xs, 1, Len(xs) - 1))
             x == xs[Len(xs)]
         IN IF x \in Range(front) THEN front ELSE Append(front, x)

\* [x for x in xs if Keep(x)]
RECURSIVE SelectNonEmpty(_)
SelectNonEmpty(xs) ==
    IF xs = <<>> THEN <<>>
    ELSE IF Head(xs) # <<>> THEN <<Head(xs)>> \o SelectNonEmpty(Tail(xs))
    ELSE SelectNonEmpty(Tail(xs))

----------------------------------------------------------------------------
(* Regular expressions, matched as Python's re matches them: a backtracking *)
(* search that tries the alternatives in priority order.  M(re, s, st) is   *)
(* the sequence of all ways re can match s from state st, in the order the  *)
(* backtracking engine tries them; the match re.match reports is the first. *)

\* X{min,max}, greedy or lazy, of a character class; max < 0 is "no limit"
Rep(cs, min, max, lazy) == [t |-> "rep", cs |-> cs, min |-> min, max |-> max, lazy |-> lazy]
One(cs)      == Rep(cs, 1, 1, FALSE)
Opt(cs)      == Rep(cs, 0, 1, FALSE)
Plus(cs)     == Rep(cs, 1, -1, FALSE)
Star(cs)     == Rep(cs, 0, -1, FALSE)
PlusLazy(cs) == Rep(cs, 1, -1, TRUE)
Cat(rs)      == [t |-> "cat", rs |-> rs]
Alt(rs)      == [t |-> "alt", rs |-> rs]
\* (?:r)?
OptG(r)      == [t |-> "opt", r |-> r]
\* (r) as capture group n
Grp(n, r)    == [t |-> "grp", n |-> n, r |-> r]
\* a literal, under re.IGNORECASE
LitI(str)    == Cat([i \in DOMAIN str |-> One({LowerChar(str[i]), UpperChar(str[i])})])
\* a literal, case-sensitive
Lit(str)     == Cat([i \in DOMAIN str |-> One({str[i]})])

NoGroup == <<0, 0>>
StartState(p, ngroups) == [pos |-> p, caps |-> [g \in 1..ngroups |-> NoGroup]]

RECURSIVE RunLen(_, _, _, _)
RunLen(s, p, cs, lim) ==
    IF lim = 0 \/ p > Len(s) THEN 0
    ELSE IF s[p] \notin cs THEN 0
    ELSE 1 + RunLen(s, p + 1, cs, lim - 1)

RECURSIVE M(_, _, _), MCat(_, _, _, _), MCatAll(_, _, _, _, _), MAlt(_, _, _, _)
M(re, s, st) ==
    CASE re.t = "rep" ->
           LET n == RunLen(s, st.pos, re.cs, IF re.max < 0 THEN Len(s) ELSE re.max)
           IN IF n < re.min THEN <<>>
              ELSE [k \in 1..(n - re.min + 1) |->
                      [st EXCEPT !.pos = st.pos + (IF re.lazy THEN re.min + k - 1 ELSE n - k + 1)]]
      [] re.t = "cat" -> MCat(re.rs, 1, s, st)
      [] re.t = "alt" -> MAlt(re.rs, 1, s, st)
      [] re.t = "opt" -> M(re.r, s, st) \o <<st>>
      [] re.t = "grp" ->
           LET inner == M(re.r, s, st)
           IN [k \in DOMAIN inner |-> [inner[k] EXCEPT !.caps[re.n] = <<st.pos, inner[k].pos>>]]

MCat(rs, i, s, st) ==
    IF i > Len(rs) THEN <<st>> ELSE MCatAll(rs, i, s, M(rs[i], s, st), 1)

MCatAll(rs, i, s, sts, j) ==
    IF j > Len(sts) THEN <<>>
    ELSE MCat(rs, i + 1, s, sts[j]) \o MCatAll(rs, i, s, sts, j + 1)

MAlt(rs, i, s, st) ==
    IF i > Len(rs) THEN <<>> ELSE M(rs[i], s, st) \o MAlt(rs, i + 1, s, st)

NoMatch == [found |-> FALSE]

\* re.search(re, s) from position p: the leftmost start that matches, and there
\* the first match in priority order
RECURSIVE Search(_, _, _, _)
Search(re, ng, s, p) ==
    IF p > Len(s) + 1 THEN NoMatch
    ELSE LET ms == M(re, s, StartState(p, ng))
         IN IF ms # <<>>
            THEN [found |-> TRUE, start |-> p, end |-> ms[1].pos, caps |-> ms[1].caps]
            ELSE Search(re, ng, s, p + 1)

\* re.finditer(re, s): the successive non-overlapping matches.  None of the
\* patterns of app.py matches the empty string, so every match advances.
RECURSIVE FindIter(_, _, _, _)
FindIter(re, ng, s, p) ==
    LET m == Search(re, ng, s, p)
    IN IF ~m.found THEN <<>>
       ELSE <<m>> \o FindIter(re, ng, s, IF m.end > m.start THEN m.end ELSE m.end + 1)

\* match.group(n) or ''
GroupOrEmpty(s, m, n) == IF m.caps[n] = NoGroup THEN <<>> ELSE Slice(s, m.caps[n][1], m.caps[n][2])

\* re.sub(re, '', s)
RECURSIVE SubRemove(_, _, _)
SubRemove(re, ng, s) ==
    LET m == Search(re, ng, s, 1)
    IN IF ~m.found THEN s
       ELSE Slice(s, 1, m.start)
            \o SubRemove(re, ng, Slice(s, IF m.end > m.start THEN m.end ELSE m.end + 1, Len(s) + 1))

----------------------------------------------------------------------------
(* extract_bet_segments                                                    *)

Alpha == AZ \cup az
DigitDot == Digit \cup {"."}

\* [A-Z][A-Za-z\s]+?   (re.IGNORECASE: [A-Z] also matches a-z)
TeamRe == Cat(<<One(Alpha), PlusLazy(Alpha \cup WS)>>)

\* (?:vs?\.?|v)
VsRe == Alt(<<Cat(<<LitI(<<"v">>), Opt({"s", "S"}), Opt({"."})>>), LitI(<<"v">>)>>)

\* (?:Over|Under)\s+[+\-]?[\d.]+(?:\s+goals?)?
OverUnderRe ==
    Cat(<<Alt(<<LitI(<<"O","v","e","r">>), LitI(<<"U","n","d","e","r">>)>>),
          Plus(WS), Opt({"+", "-"}), Plus(DigitDot),
          OptG(Cat(<<Plus(WS), LitI(<<"g","o","a","l">>), Opt({"s", "S"})>>))>>)

\* (?:\s*@\s*([\d.]+))?  with the odds as group n
OddsRe(n) == OptG(Cat(<<Star(WS), One({"@"}), Star(WS), Grp(n, Plus(DigitDot))>>))

combined_pattern ==
    Cat(<<OptG(Cat(<<Grp(1, TeamRe),
                     OptG(Cat(<<Plus(WS), VsRe, Plus(WS), Grp(2, TeamRe)>>)),
                     Star(WS), Opt({"-", EnDash, ","}), Star(WS)>>)),
          Grp(3, Cat(<<OptG(Cat(<<TeamRe, Plus(WS)>>)),
                       Alt(<<LitI(<<"M","L">>), LitI(<<"B","T","T","S">>), OverUnderRe>>)>>)),
          OddsRe(4)>>)

\* the three fallback patterns, each with its number of groups
fallback_patterns ==
    << [re |-> Cat(<<Grp(1, TeamRe), Plus(WS), LitI(<<"M","L">>), OddsRe(2)>>), ng |-> 2],
       [re |-> Cat(<<Grp(1, TeamRe), Plus(WS), VsRe, Plus(WS), Grp(2, TeamRe),
                     Star(WS), One({"-", EnDash}), Star(WS),
                     Grp(3, PlusLazy(Alpha \cup WS)), OddsRe(4)>>), ng |-> 4],
       [re |-> OverUnderRe, ng |-> 0] >>

\* the pick built from one match of combined_pattern (lines 126-140)
PrimaryPick(s, m) ==
    LET team1 == Strip(GroupOrEmpty(s, m, 1))
        team2 == Strip(GroupOrEmpty(s, m, 2))
        bet   == Strip(GroupOrEmpty(s, m, 3))
        odds  == Strip(GroupOrEmpty(s, m, 4))
        pick  == IF team1 # <<>> /\ team2 # <<>>
                 THEN team1 \o <<" ","v","s"," ">> \o team2 \o <<" ","-"," ">> \o bet
                 ELSE IF team1 # <<>> THEN team1 \o <<" ">> \o bet
                 ELSE bet
    IN IF odds # <<>> THEN pick \o <<" ","@"," ">> \o odds ELSE pick

\* the pick built from one match of a fallback pattern (lines 155-156)
FallbackPick(s, m, ng) ==
    Strip(Join(SelectNonEmpty([g \in 1..ng |-> GroupOrEmpty(s, m, g)]), <<" ">>))

RECURSIVE FallbackSegments(_, _)
FallbackSegments(s, i) ==
    IF i > Len(fallback_patterns) THEN <<>>
    ELSE LET fp == fallback_patterns[i]
             ms == FindIter(fp.re, fp.ng, s, 1)
         IN SelectNonEmpty([k \in DOMAIN ms |-> FallbackPick(s, ms[k], fp.ng)])
            \o FallbackSegments(s, i + 1)

\* the picks of the matches ms of combined_pattern (lines 125-143)
PrimarySegments(s, ms) ==
    SelectNonEmpty([k \in DOMAIN ms |-> Strip(PrimaryPick(s, ms[k]))])

\* "if not segments:" the fallback patterns are tried (line 146)
WithFallback(s, primary) ==
    IF primary = <<>> THEN FallbackSegments(s, 1) ELSE primary

extract_bet_segments(s) ==
    Dedupe(WithFallback(s, PrimarySegments(s, FindIter(combined_pattern, 4, s, 1))))

----------------------------------------------------------------------------
(* normalize_pick                                                          *)

Moneyline == <<"m","o","n","e","y","l","i","n","e">>
BothTeamsToScore == <<"b","o","t","h","_","t","e","a","m","s","_","t","o","_","s","c","o","r","e">>
DrawNoBet == <<"d","r","a","w","_","n","o","_","b","e","t">>
AsianHandicap == <<"a","s","i","a","n","_","h","a","n","d","i","c","a","p">>

\* the alias table, in the dict's insertion order
bet_type_map ==
    << [alias |-> <<"m","l">>, canonical |-> Moneyline],
       [alias |-> <<"m","o","n","e","y","l","i","n","e">>, canonical |-> Moneyline],
       [alias |-> <<"m","o","n","e","y"," ","l","i","n","e">>, canonical |-> Moneyline],
       [alias |-> <<"t","o"," ","w","i","n">>, canonical |-> Moneyline],
       [alias |-> <<"b","t","t","s">>, canonical |-> BothTeamsToScore],
       [alias |-> <<"b","o","t","h"," ","t","e","a","m","s"," ","t","o"," ","s","c","o","r","e">>,
        canonical |-> BothTeamsToScore],
       [alias |-> <<"d","n","b">>, canonical |-> DrawNoBet],
       [alias |-> <<"d","r","a","w"," ","n","o"," ","b","e","t">>, canonical |-> DrawNoBet],
       [alias |-> <<"a","h">>, canonical |-> AsianHandicap],
       [alias |-> <<"a","s","i","a","n"," ","h","a","n","d","i","c","a","p">>,
        canonical |-> AsianHandicap] >>

\* [@\(\)\[\]:\-–,]
Separators == {"@", "(", ")", "[", "]", ":", "-", EnDash, ","}

\* \d+\.?\d*\s*(?:odds)?
OddsTokenRe ==
    Cat(<<Plus(Digit), Opt({"."}), Star(Digit), Star(WS), OptG(Lit(<<"o","d","d","s">>))>>)

\* (over|under)\s+([+\-]?[\d.]+)
OverUnderKeyRe ==
    Cat(<<Grp(1, Alt(<<Lit(<<"o","v","e","r">>), Lit(<<"u","n","d","e","r">>)>>)),
          Plus(WS), Grp(2, Cat(<<Opt({"+", "-"}), Plus(DigitDot)>>))>>)

\* "Remove bet type to isolate team name" (line 201)
RemoveAlias(pick_lower, alias) == RemoveAll(pick_lower, alias)

\* lines 201-205, after the alias has been taken out
CleanSubject(text) ==
    LET stripped == Strip(text)
        spaced   == [i \in DOMAIN stripped |->
                        IF stripped[i] \in Separators THEN " " ELSE stripped[i]]
        no_odds  == SubRemove(OddsTokenRe, 0, spaced)
    IN Join(SplitWS(no_odds), <<"_">>)

\* index in bet_type_map of the first alias found in pick_lower, 0 if none
FirstAlias(pick_lower) ==
    IF \E i \in DOMAIN bet_type_map : Contains(pick_lower, bet_type_map[i].alias)
    THEN CHOOSE i \in DOMAIN bet_type_map :
            /\ Contains(pick_lower, bet_type_map[i].alias)
            /\ \A j \in 1..(i - 1) : ~Contains(pick_lower, bet_type_map[j].alias)
    ELSE 0

\* "Fallback: use the whole pick text normalized" (line 220)
FallbackKey(pick_lower) == Join(SplitWS(pick_lower), <<"_">>)

\* lines 216-220, a bet type found: team_name is the cleaned subject
KeyWithBetType(pick_lower, team_name, bet_type) ==
    IF team_name # <<>>
    THEN team_name \o <<":">> \o bet_type
    ELSE FallbackKey(pick_lower)

\* lines 209-220, no bet type found: m is the over/under search
KeyWithoutBetType(pick_lower, m) ==
    IF m.found
    THEN <<"t","o","t","a","l",":">> \o GroupOrEmpty(pick_lower, m, 1)
         \o <<"_">> \o GroupOrEmpty(pick_lower, m, 2)
    ELSE FallbackKey(pick_lower)

\* lines 197-220, a the index of the first alias found (0: none)
KeyOfLower(pick_lower, a) ==
    IF a # 0
    THEN KeyWithBetType(pick_lower,
                        CleanSubject(RemoveAlias(pick_lower, bet_type_map[a].alias)),
                        bet_type_map[a].canonical)
    ELSE KeyWithoutBetType(pick_lower, Search(OverUnderKeyRe, 2, pick_lower, 1))

NormalizeLower(pick_lower) == KeyOfLower(pick_lower, FirstAlias(pick_lower))

normalize_pick(pick_text) == NormalizeLower(Strip(Lower(pick_text)))

----------------------------------------------------------------------------
(* extract_picks_and_notes and _parse_listing                              *)

RECURSIVE PicksInLines(_)
PicksInLines(ls) ==
    IF ls = <<>> THEN <<>>
    ELSE LET l == Strip(Head(ls))
         IN (IF l = <<>> THEN <<>> ELSE extract_bet_segments(l)) \o PicksInLines(Tail(ls))

extract_picks_and_notes(body) ==
    IF body = <<>> THEN [picks |-> <<>>, notes |-> <<>>]
    ELSE LET ls == SplitOn(body, "\n")
             stripped == [i \in DOMAIN ls |-> Strip(ls[i])]
         IN [picks |-> Join(Dedupe(PicksInLines(ls)), <<"\n">>),
             notes |-> Join(SelectNonEmpty(stripped), <<"\n">>)]

\* A Reddit listing is [kind |-> "Listing", children |-> <<child, ...>>]; a child is
\* [kind, id, author, body, ups, downs, replies], its replies a listing or
\* NoReplies (the "" Reddit sends for a comment without replies).
NoReplies == [kind |-> "none", children |-> <<>>]
Listing(children) == [kind |-> "Listing", children |-> children]

Deleted == <<"[","d","e","l","e","t","e","d","]">>

RECURSIVE parse_listing(_), ParseChildren(_), ParseChild(_, _)
parse_listing(listing) == ParseChildren(listing.children)

\* lines 40-66 for one child, pn being extract_picks_and_notes(body): the parsed
\* comment, or nothing when the child is skipped
ParseChild(child, pn) ==
    IF child.kind # "t1" \/ pn.picks = <<>> THEN <<>>
    ELSE << [id |-> child.id,
             author |-> IF child.author = <<>> THEN Deleted ELSE child.author,
             body |-> child.body,
             picks |-> pn.picks,
             notes |-> pn.notes,
             ups |-> child.ups,
             downs |-> child.downs,
             replies |-> IF child.replies.kind = "Listing"
                         THEN parse_listing(child.replies) ELSE <<>>] >>

ParseChildren(children) ==
    IF children = <<>> THEN <<>>
    ELSE ParseChild(Head(children), extract_picks_and_notes(Head(children).body))
         \o ParseChildren(Tail(children))

----------------------------------------------------------------------------
(* aggregate_picks_by_votes                                                *)

\* ord() of a character, for the string hash
Ord(c) ==
    IF c \in AZ THEN 64 + (CHOOSE i \in DOMAIN UpperLetters : UpperLetters[i] = c)
    ELSE IF c \in az THEN 96 + (CHOOSE i \in DOMAIN LowerLetters : LowerLetters[i] = c)
    ELSE 32

\* hash(str) under the process's seed
RECURSIVE StrHash(_, _)
StrHash(seed, s) ==
    IF s = <<>> THEN seed
    ELSE (StrHash(seed, SubSeq(s, 1, Len(s) - 1)) * 31 + Ord(s[Len(s)])) % 1021

\* i inserted into order, a sequence of indices sorted by key: after every index
\* whose key is not greater
RECURSIVE InsertIndex(_, _, _)
InsertIndex(order, i, key) ==
    IF order = <<>> THEN <<i>>
    ELSE IF key[i] < key[Head(order)] THEN <<i>> \o order
    ELSE <<Head(order)>> \o InsertIndex(Tail(order), i, key)

RECURSIVE StableOrder(_, _)
StableOrder(key, n) ==
    IF n = 0 THEN <<>> ELSE InsertIndex(StableOrder(key, n - 1), n, key)

\* xs sorted by ascending key[i], stable as list.sort and sorted are: elements
\* with equal keys keep their order
StableSort(xs, key) ==
    LET order == StableOrder(key, Len(xs))
    IN [k \in DOMAIN xs |-> xs[order[k]]]

\* Iteration order of a Python set of str that received the elements of texts in
\* this order: by slot of the hash table (8 slots), colliding elements in
\* insertion order.
SetIterationOrder(seed, texts) ==
    StableSort(texts, [i \in DOMAIN texts |-> StrHash(seed, texts[i]) % 8])

\* sorted(data['original_texts'], key=len)[0]
display_text(seed, texts) ==
    LET it == SetIterationOrder(seed, texts)
    IN StableSort(it, [i \in DOMAIN it |-> Len(it[i])])[1]

\* mutant of NewPickData: the accumulator is a module-level dict that is not
\* cleared between invocations
StalePickData == pick_data

\* defaultdict(lambda: {...}) of line 231: no key yet.  The dict is a sequence of
\* entries in insertion order; original_texts lists the set's elements in the
\* order they were added.
NewPickData == <<>>

NewEntry(key) ==
    [key |-> key, total_ups |-> 0, total_downs |-> 0, contributors |-> <<>>,
     original_texts |-> <<>>, notes |-> <<>>]

KeyIndex(pd, key) ==
    IF \E i \in DOMAIN pd : pd[i].key = key
    THEN CHOOSE i \in DOMAIN pd : pd[i].key = key
    ELSE 0

\* [p.strip() for p in comment['picks'].split('\n') if p.strip()]
individual_picks(comment) ==
    LET ps == SplitOn(comment.picks, "\n")
    IN SelectNonEmpty([i \in DOMAIN ps |-> Strip(ps[i])])

\* f"**{author}:** {notes}"
NoteBlock(author, notes) == <<"*","*">> \o author \o <<":","*","*"," ">> \o notes

\* pick_data[pick_key] of a defaultdict: the entry is made when the key is new
WithKey(pd, pick_key) ==
    IF KeyIndex(pd, pick_key) = 0 THEN Append(pd, NewEntry(pick_key)) ELSE pd

\* lines 253-260 on the entry at index i
AddToEntry(pd, i, comment, pick_text) ==
    [pd EXCEPT ![i] =
       [@ EXCEPT !.total_ups = @ + comment.ups,
                 !.total_downs = @ + comment.downs,
                 !.contributors = Append(@, comment.author),
                 !.original_texts = IF pick_text \in Range(@) THEN @ ELSE Append(@, pick_text),
                 !.notes = IF comment.notes # <<>>
                           THEN Append(@, NoteBlock(comment.author, comment.notes))
                           ELSE @]]

AddUnderKey(pd, pick_key, comment, pick_text) ==
    AddToEntry(pd, KeyIndex(pd, pick_key), comment, pick_text)

AddWithKey(pd, pick_key, comment, pick_text) ==
    AddUnderKey(WithKey(pd, pick_key), pick_key, comment, pick_text)

\* lines 250-260: one pick of one comment goes into the accumulator
AddPick(pd, comment, pick_text) ==
    AddWithKey(pd, normalize_pick(pick_text), comment, pick_text)

RECURSIVE AddPicks(_, _, _)
AddPicks(pd, comment, picks) ==
    IF picks = <<>> THEN pd
    ELSE AddPicks(AddPick(pd, comment, Head(picks)), comment, Tail(picks))

\* the loop of lines 239-260
RECURSIVE Accumulate(_, _)
Accumulate(pd, cs) ==
    IF cs = <<>> THEN pd
    ELSE Accumulate(AddPicks(pd, Head(cs), individual_picks(Head(cs))), Tail(cs))

Community == <<"C","o","m","m","u","n","i","t","y">>
NoteSeparator == <<"\n","\n","-","-","-","\n">>

\* lines 264-281
Card(seed, e) ==
    [id |-> e.key,
     author |-> Community,
     picks |-> display_text(seed, e.original_texts),
     notes |-> Join(e.notes, NoteSeparator),
     ups |-> e.total_ups,
     downs |-> e.total_downs,
     contributors |-> e.contributors,
     body |-> <<>>,
     replies |-> <<>>]

\* mutant of sort_cards: sorted ascending and then reversed, which turns the
\* order of cards with equal ups around
sort_cards_reversed(cards) ==
    LET asc == StableSort(cards, [i \in DOMAIN cards |-> cards[i].ups])
    IN [i \in DOMAIN asc |-> asc[Len(asc) + 1 - i]]

\* final_cards.sort(key=lambda x: x['ups'], reverse=True): stable, so cards with
\* equal ups keep their order
sort_cards(cards) ==
    StableSort(cards, [i \in DOMAIN cards |-> 0 - cards[i].ups])

\* lines 263-286
final_cards(seed, pd) ==
    [pick_data |-> pd,
     cards |-> sort_cards([i \in DOMAIN pd |-> Card(seed, pd[i])])]

\* the accumulator and the cards of one invocation
aggregate_picks_by_votes(seed, cs) == final_cards(seed, Accumulate(NewPickData, cs))

----------------------------------------------------------------------------
(* The text pipeline as a state machine: a line is segmented and its        *)
(* segments are normalized, or the line is normalized as a phrase.          *)

SubjectPool ==
    { <<>>,
      <<"S","p","o","r","t","i","n","g"," ">>,
      <<"A","l"," ","N","a","s","s","r"," ">>,
      <<"H","a","m","l","e","t"," ">>,
      <<"A","b"," ","v"," ","C","d"," ","-"," ">> }

BetPool ==
    { <<"M","L">>,
      <<"B","T","T","S">>,
      <<"m","o","n","e","y","l","i","n","e">>,
      <<"D","N","B">>,
      <<"O","v","e","r"," ","2",".","5">>,
      <<"D","r","a","w">> }

OddsPool == { <<>>, <<" ","@"," ","2",".","3","8">> }

LinePool == { s \o b \o o : s \in SubjectPool, b \in BetPool, o \in OddsPool }

AggIdle ==
    /\ hashseed = 0
    /\ comments = <<>>
    /\ comments0 = <<>>
    /\ pick_data = <<>>
    /\ outs = <<>>

NoResponse == [status |-> 0, comments |-> <<>>]

FileIdle ==
    /\ fmode = "missing"
    /\ file = <<>>
    /\ damaged = FALSE
    /\ spc = "sleep"
    /\ sdata = <<>>
    /\ swritten = 0
    /\ sres = "none"
    /\ rpc = "idle"
    /\ rbuf = <<>>
    /\ roff = 0
    /\ rdamaged = FALSE
    /\ rfound = "none"
    /\ resp = NoResponse

TextIdle ==
    /\ tpc = "line"
    /\ line = <<>>
    /\ segments = <<>>
    /\ keys = <<>>

TextInit ==
    /\ tpc = "line"
    /\ line \in LinePool
    /\ segments = <<>>
    /\ keys = <<>>
    /\ AggIdle
    /\ FileIdle

\* picks_in_line = extract_bet_segments(line)   (line 89)
Segment ==
    /\ tpc = "line"
    /\ segments' = extract_bet_segments(line)
    /\ tpc' = "segmented"
    /\ UNCHANGED <<line, keys, aggvars, filevars>>

\* pick_key = normalize_pick(pick_text) for each extracted pick   (line 250)
NormalizeSegments ==
    /\ tpc = "segmented"
    /\ keys' = [i \in DOMAIN segments |-> normalize_pick(segments[i])]
    /\ tpc' = "keyed"
    /\ UNCHANGED <<line, segments, aggvars, filevars>>

\* normalize_pick applied to the text itself
NormalizePhrase ==
    /\ tpc = "line"
    /\ keys' = <<normalize_pick(line)>>
    /\ tpc' = "direct"
    /\ UNCHANGED <<line, segments, aggvars, filevars>>

TextNext == Segment \/ NormalizeSegments \/ NormalizePhrase

SpecText == TextInit /\ [][TextNext]_vars

----------------------------------------------------------------------------
(* The aggregator as a state machine: one process (one hash seed), a list   *)
(* of parsed comments, and repeated invocations on it.                      *)

MaxComments == 2
MaxUps == 1
MaxDowns == 1
MaxRuns == 2

HashSeeds == {0, 2}

AggBodies ==
    { <<"A"," ","M","L">>,
      <<"a"," ","m","l">>,
      <<"A"," ","M","L"," ","@"," ","2","\n","A"," ","M","L">>,
      <<"B"," ","M","L","\n","a"," ","m","l">> }

DigitChars == <<"1","2","3","4","5","6","7","8","9">>
AuthorOf(i) == <<"u", DigitChars[i]>>
IdOf(i) == <<"c", DigitChars[i]>>

\* a comment's body, ups and downs; downs are only ever summed, so none or the
\* most is drawn for them
CommentChoices == AggBodies \X (0..MaxUps) \X {0, MaxDowns}

\* the top-level comments of a thread whose i-th comment is choice[i]
ThreadOf(choice) ==
    Listing([i \in DOMAIN choice |->
                [kind |-> "t1", id |-> IdOf(i), author |-> AuthorOf(i),
                 body |-> choice[i][1], ups |-> choice[i][2], downs |-> choice[i][3],
                 replies |-> NoReplies]])

AggInit ==
    /\ \E n \in 0..MaxComments :
         \E choice \in [1..n -> CommentChoices] :
            comments = parse_listing(ThreadOf(choice))
    /\ comments0 = comments
    /\ hashseed \in HashSeeds
    /\ pick_data = <<>>
    /\ outs = <<>>
    /\ TextIdle
    /\ FileIdle

\* aggregated_picks = aggregate_picks_by_votes(comments)   (line 303)
Aggregate ==
    /\ Len(outs) < MaxRuns
    /\ \E r \in {aggregate_picks_by_votes(hashseed, comments)} :
          /\ outs' = Append(outs, r.cards)
          /\ pick_data' = r.pick_data
    /\ UNCHANGED <<hashseed, comments, comments0, textvars, filevars>>

AggNext == Aggregate

SpecAgg == AggInit /\ [][AggNext]_vars

----------------------------------------------------------------------------
(* comments.json: json.dump and json.load.  The file is a sequence of JSON  *)
(* tokens; json.dump writes the tokens of a document one after the other,   *)
(* json.load parses a token sequence and raises JSONDecodeError on anything *)
(* that is not one complete document.                                       *)

Tok(k) == [k |-> k, id |-> <<>>, author |-> <<>>, body |-> <<>>, ups |-> 0, downs |-> 0]
DataTok(c) == [k |-> c.kind, id |-> c.id, author |-> c.author, body |-> c.body,
               ups |-> c.ups, downs |-> c.downs]

RECURSIVE DumpListing(_), DumpChildren(_)
DumpListing(l) == <<Tok("{")>> \o DumpChildren(l.children) \o <<Tok("}")>>

DumpChildren(cs) ==
    IF cs = <<>> THEN <<>>
    ELSE LET c == Head(cs)
         IN <<DataTok(c)>>
            \o (IF c.replies.kind = "Listing" THEN DumpListing(c.replies) ELSE <<>>)
            \o DumpChildren(Tail(cs))

RECURSIVE DumpListings(_)
DumpListings(ls) == IF ls = <<>> THEN <<>> ELSE DumpListing(Head(ls)) \o DumpListings(Tail(ls))

\* the tokens json.dump(data, f) writes for a list of listings
Dump(data) == <<Tok("[")>> \o DumpListings(data) \o <<Tok("]")>>

ParseError == [ok |-> FALSE, val |-> <<>>, next |-> 0]

RECURSIVE LoadListing(_, _), LoadChildren(_, _)
\* a listing starting at token i
LoadListing(toks, i) ==
    IF i > Len(toks) THEN ParseError
    ELSE IF toks[i].k # "{" THEN ParseError
    ELSE LET r == LoadChildren(toks, i + 1)
         IN IF r.ok THEN [ok |-> TRUE, val |-> Listing(r.val), next |-> r.next] ELSE ParseError

\* the children of a listing from token i up to and including its "}"
LoadChildren(toks, i) ==
    IF i > Len(toks) THEN ParseError
    ELSE IF toks[i].k = "}" THEN [ok |-> TRUE, val |-> <<>>, next |-> i + 1]
    ELSE IF toks[i].k \notin {"t1", "t3"} THEN ParseError
    ELSE LET t == toks[i]
             nested == i + 1 <= Len(toks) /\ toks[i + 1].k = "{"
             rep == IF nested THEN LoadListing(toks, i + 1)
                    ELSE [ok |-> TRUE, val |-> NoReplies, next |-> i + 1]
         IN IF ~rep.ok THEN ParseError
            ELSE LET rest == LoadChildren(toks, rep.next)
                 IN IF ~rest.ok THEN ParseError
                    ELSE [ok |-> TRUE,
                          val |-> << [kind |-> t.k, id |-> t.id, author |-> t.author,
                                      body |-> t.body, ups |-> t.ups, downs |-> t.downs,
                                      replies |-> rep.val] >> \o rest.val,
                          next |-> rest.next]

RECURSIVE LoadListings(_, _)
LoadListings(toks, i) ==
    IF i > Len(toks) THEN ParseError
    ELSE IF toks[i].k = "]" THEN [ok |-> TRUE, val |-> <<>>, next |-> i + 1]
    ELSE LET l == LoadListing(toks, i)
         IN IF ~l.ok THEN ParseError
            ELSE LET rest == LoadListings(toks, l.next)
                 IN IF ~rest.ok THEN ParseError
                    ELSE [ok |-> TRUE, val |-> <<l.val>> \o rest.val, next |-> rest.next]

\* json.load(fh) on the tokens read: ok is FALSE where it raises JSONDecodeError
Load(toks) ==
    IF toks = <<>> THEN ParseError
    ELSE IF toks[1].k # "[" THEN ParseError
    ELSE LET r == LoadListings(toks, 2)
         IN IF r.ok /\ r.next = Len(toks) + 1 THEN r ELSE ParseError

----------------------------------------------------------------------------
(* load_comments and api_comments                                          *)

\* lines 296-300
RECURSIVE ParseListings(_)
ParseListings(listings) ==
    IF listings = <<>> THEN <<>>
    ELSE parse_listing(Head(listings)) \o ParseListings(Tail(listings))

\* load_comments from line 293 on, given the tokens read from the file
load_comments_parsed(seed, raw) ==
    IF ~raw.ok THEN [raised |-> "JSONDecodeError", value |-> <<>>]
    ELSE [raised |-> "none",
          value |-> aggregate_picks_by_votes(seed, ParseListings(raw.val)).cards]

load_comments_read(seed, toks) == load_comments_parsed(seed, Load(toks))

\* load_comments when COMMENTS_PATH does not exist (lines 290-291)
load_comments_missing == [raised |-> "none", value |-> <<>>]

\* load_comments when COMMENTS_PATH.open raises
load_comments_denied == [raised |-> "OSError", value |-> <<>>]

\* mutant of api_comments: the except clause answers with an empty list
api_comments_swallowing(loaded) == [status |-> 200, comments |-> loaded.value]

\* api_comments, given how load_comments ended
api_comments(loaded) ==
    IF loaded.raised \in {"OSError", "JSONDecodeError"}
    THEN [status |-> 500, comments |-> <<>>]
    ELSE [status |-> 200, comments |-> loaded.value]

----------------------------------------------------------------------------
(* The server: the scraper thread and a request on comments.json           *)

Child(kind, i, body, ups, replies) ==
    [kind |-> kind, id |-> IdOf(i), author |-> AuthorOf(i), body |-> body,
     ups |-> ups, downs |-> 0, replies |-> replies]

\* the first listing of a thread payload: the submission itself
PostListing == Listing(<<Child("t3", 9, <<>>, 1, NoReplies)>>)

\* a comment with a pick and a reply with another pick
Payload1 ==
    << PostListing,
       Listing(<< Child("t1", 1, <<"A"," ","M","L">>, 1,
                        Listing(<<Child("t1", 2, <<"B"," ","M","L">>, 1, NoReplies)>>)) >>) >>

\* a comment without a pick and a reply with a pick, then a comment with a pick
Payload2 ==
    << PostListing,
       Listing(<< Child("t1", 1, <<"g","l">>, 1,
                        Listing(<<Child("t1", 2, <<"a"," ","m","l">>, 1, NoReplies)>>)),
                  Child("t1", 3, <<"A"," ","M","L">>, 0, NoReplies) >>) >>

\* a thread without comments yet
Payload3 == << PostListing, Listing(<<>>) >>

Payloads == {Payload1, Payload2, Payload3}

Snapshots == {Dump(p) : p \in Payloads}

\* what a write that stopped half way left behind
Truncated(toks) == SubSeq(toks, 1, Len(toks) \div 2)

ServeInit ==
    /\ \/ fmode = "missing" /\ file = <<>>
       \/ fmode \in {"ok", "denied"} /\ file \in Snapshots
       \/ fmode = "ok" /\ file \in {Truncated(Dump(Payload1))}
    /\ damaged = (file \notin Snapshots /\ fmode = "ok")
    /\ spc = "fetch"
    /\ sdata = <<>>
    /\ swritten = 0
    /\ sres = "none"
    /\ rpc = "idle"
    /\ rbuf = <<>>
    /\ roff = 0
    /\ rdamaged = FALSE
    /\ rfound = "none"
    /\ resp = NoResponse
    /\ TextIdle
    /\ AggIdle

scrapervars == <<spc, sdata, swritten, sres>>
requestvars == <<rpc, rbuf, roff, rdamaged, rfound, resp>>

\* lines 21-23 succeed: data = r.json()
ScrapeFetch ==
    /\ spc = "fetch"
    /\ \E p \in Payloads : sdata' = p
    /\ spc' = "open"
    /\ UNCHANGED <<fmode, file, damaged, swritten, sres, requestvars, textvars, aggvars>>

\* mutant of ScrapeFetchFails: the file is opened for writing before the request
\* is made, so a failed fetch leaves it empty
ScrapeFetchFailsTruncating ==
    /\ spc = "fetch"
    /\ fmode # "denied"
    /\ fmode' = "ok"
    /\ file' = <<>>
    /\ sres' = "False"
    /\ spc' = "sleep"
    /\ UNCHANGED <<damaged, sdata, swritten, rpc, rbuf, roff, rdamaged, rfound, resp,
                   textvars, aggvars>>

\* requests.get, raise_for_status or r.json() raises: except, return False
ScrapeFetchFails ==
    /\ spc = "fetch"
    /\ sres' = "False"
    /\ spc' = "sleep"
    /\ UNCHANGED <<fmode, file, damaged, sdata, swritten, requestvars, textvars, aggvars>>

\* COMMENTS_PATH.open("w"): creates or truncates the file (line 25)
ScrapeOpen ==
    /\ spc = "open"
    /\ IF fmode = "denied"
       THEN /\ sres' = "False"
            /\ spc' = "sleep"
            /\ UNCHANGED <<fmode, file, damaged, swritten>>
       ELSE /\ fmode' = "ok"
            /\ file' = <<>>
            /\ damaged' = FALSE
            /\ swritten' = 0
            /\ spc' = "dump"
            /\ UNCHANGED sres
    /\ UNCHANGED <<sdata, requestvars, textvars, aggvars>>

\* json.dump: the next part of the document reaches the file (line 26)
ScrapeWrite ==
    /\ spc = "dump"
    /\ swritten < Len(Dump(sdata))
    /\ file' = Append(file, Dump(sdata)[swritten + 1])
    /\ swritten' = swritten + 1
    /\ UNCHANGED <<fmode, damaged, spc, sdata, sres, requestvars, textvars, aggvars>>

\* a write raises OSError (disk full): the with block closes the file, return False
ScrapeWriteFails ==
    /\ spc = "dump"
    /\ swritten < Len(Dump(sdata))
    /\ damaged' = TRUE
    /\ sres' = "False"
    /\ spc' = "sleep"
    /\ UNCHANGED <<fmode, file, sdata, swritten, requestvars, textvars, aggvars>>

\* the with block ends, return True (line 28)
ScrapeClose ==
    /\ spc = "dump"
    /\ swritten = Len(Dump(sdata))
    /\ sres' = "True"
    /\ spc' = "sleep"
    /\ UNCHANGED <<fmode, file, damaged, sdata, swritten, requestvars, textvars, aggvars>>

\* background_scraper: time.sleep(300) returns, the loop goes round (lines 325-336)
ScrapeWake ==
    /\ spc = "sleep"
    /\ spc' = "fetch"
    /\ UNCHANGED <<fmode, file, damaged, sdata, swritten, sres, requestvars, textvars, aggvars>>

ScraperStep ==
    ScrapeFetch \/ ScrapeFetchFails \/ ScrapeOpen \/ ScrapeWrite \/ ScrapeWriteFails
    \/ ScrapeClose \/ ScrapeWake

\* GET /api/comments arrives
Request ==
    /\ rpc \in {"idle", "done"}
    /\ rpc' = "exists"
    /\ rbuf' = <<>>
    /\ roff' = 0
    /\ rdamaged' = FALSE
    /\ rfound' = "none"
    /\ resp' = NoResponse
    /\ UNCHANGED <<fmode, file, damaged, scrapervars, textvars, aggvars>>

\* if not COMMENTS_PATH.exists(): return []   (lines 290-291)
RequestExists ==
    /\ rpc = "exists"
    /\ IF fmode = "missing"
       THEN /\ rfound' = "missing"
            /\ resp' = api_comments(load_comments_missing)
            /\ rpc' = "done"
       ELSE /\ rpc' = "open"
            /\ UNCHANGED <<rfound, resp>>
    /\ UNCHANGED <<fmode, file, damaged, rbuf, roff, rdamaged, scrapervars, textvars, aggvars>>

\* COMMENTS_PATH.open("r")   (line 293)
RequestOpen ==
    /\ rpc = "open"
    /\ IF fmode = "denied"
       THEN /\ rfound' = "denied"
            /\ resp' = api_comments(load_comments_denied)
            /\ rpc' = "done"
            /\ UNCHANGED rdamaged
       ELSE /\ rfound' = "ok"
            /\ rdamaged' = damaged
            /\ rpc' = "read"
            /\ UNCHANGED resp
    /\ UNCHANGED <<fmode, file, damaged, rbuf, roff, scrapervars, textvars, aggvars>>

\* fh.read() inside json.load: a read returns what the file holds beyond the
\* offset; the reading ends with the read that returns nothing
RequestRead ==
    /\ rpc = "read"
    /\ IF roff < Len(file)
       THEN /\ rbuf' = rbuf \o SubSeq(file, roff + 1, Len(file))
            /\ roff' = Len(file)
            /\ rdamaged' = (rdamaged \/ damaged)
            /\ UNCHANGED rpc
       ELSE /\ rpc' = "parse"
            /\ UNCHANGED <<rbuf, roff, rdamaged>>
    /\ UNCHANGED <<fmode, file, damaged, rfound, resp, scrapervars, textvars, aggvars>>

\* json.load parses what was read; load_comments and api_comments finish
RequestRespond ==
    /\ rpc = "parse"
    /\ resp' = api_comments(load_comments_read(hashseed, rbuf))
    /\ rpc' = "done"
    /\ UNCHANGED <<fmode, file, damaged, rbuf, roff, rdamaged, rfound, scrapervars, textvars,
                   aggvars>>

ServeNext ==
    \/ ScrapeFetch \/ ScrapeFetchFails \/ ScrapeOpen \/ ScrapeWrite \/ ScrapeWriteFails
    \/ ScrapeClose \/ ScrapeWake
    \/ Request \/ RequestExists \/ RequestOpen \/ RequestRead \/ RequestRespond

SpecServe == ServeInit /\ [][ServeNext]_vars

\* the scraper thread is scheduled, its requests and its sleep return
FairServe == SpecServe /\ WF_vars(ScraperStep)

----------------------------------------------------------------------------
(* Properties of the text pipeline (SpecText)                               *)

SportingLine == <<"S","p","o","r","t","i","n","g"," ","M","L"," ","@"," ","2",".","3","8">>
SportingKey == <<"s","p","o","r","t","i","n","g",":","m","o","n","e","y","l","i","n","e">>

\* C8: for the line "Sporting ML @ 2.38" extract_bet_segments returns exactly the
\* phrase "Sporting ML @ 2.38", and normalize_pick of it is "sporting:moneyline".
C8_SportingScenario ==
    line = SportingLine =>
        /\ tpc \in {"segmented", "keyed"} => segments = <<SportingLine>>
        /\ tpc = "keyed" => keys = <<SportingKey>>

\* s with the occurrence of t at position p taken out
RemoveAt(s, t, p) == Slice(s, 1, p) \o Slice(s, p + Len(t), Len(s) + 1)

\* C9: for every phrase that contains an alias, normalize_pick returns
\* "<subject>:<bettype>", bettype the canonical tag of the first alias in table
\* order and subject built from the phrase with exactly one occurrence of that
\* alias removed, also when the subject is empty or the alias occurs twice.
C9_AliasKey ==
    (tpc = "direct" /\ FirstAlias(Strip(Lower(line))) # 0) =>
        \E p \in 1..Len(line) :
            /\ StartsAt(Strip(Lower(line)), bet_type_map[FirstAlias(Strip(Lower(line)))].alias, p)
            /\ keys[1] = CleanSubject(RemoveAt(Strip(Lower(line)),
                                               bet_type_map[FirstAlias(Strip(Lower(line)))].alias, p))
                         \o <<":">>
                         \o bet_type_map[FirstAlias(Strip(Lower(line)))].canonical

----------------------------------------------------------------------------
(* Properties of the aggregator (SpecAgg)                                   *)

\* the keys of the picks of the comments, in the order the scan meets them
RECURSIVE ScanKeys(_)
ScanKeys(cs) ==
    IF cs = <<>> THEN <<>>
    ELSE [i \in DOMAIN individual_picks(Head(cs)) |->
             normalize_pick(individual_picks(Head(cs))[i])]
         \o ScanKeys(Tail(cs))

\* the phrases of the picks of the comments, in the order the scan meets them
RECURSIVE ScanPhrases(_)
ScanPhrases(cs) ==
    IF cs = <<>> THEN <<>> ELSE individual_picks(Head(cs)) \o ScanPhrases(Tail(cs))

HasKey(c, key) ==
    \E i \in DOMAIN individual_picks(c) : normalize_pick(individual_picks(c)[i]) = key

\* sum of field ups (which = "ups") or downs over the comments with a pick of the key
RECURSIVE VotesFor(_, _, _)
VotesFor(cs, key, which) ==
    IF cs = <<>> THEN 0
    ELSE (IF HasKey(Head(cs), key)
          THEN (IF which = "ups" THEN Head(cs).ups ELSE Head(cs).downs)
          ELSE 0)
         + VotesFor(Tail(cs), key, which)

\* C1: every card's ups is the sum of ups over the comments that have at least one
\* pick of the card's key, each such comment counted once for the key; the same
\* for downs.
C1_VoteSums ==
    \A k \in DOMAIN outs : \A j \in DOMAIN outs[k] :
        /\ outs[k][j].ups = VotesFor(comments, outs[k][j].id, "ups")
        /\ outs[k][j].downs = VotesFor(comments, outs[k][j].id, "downs")

\* position in the scan at which the key is met first
FirstIn(ks, key) ==
    CHOOSE i \in DOMAIN ks : ks[i] = key /\ \A j \in 1..(i - 1) : ks[j] # key

FirstEncounter(cs, key) == FirstIn(ScanKeys(cs), key)

\* C2: the cards are in order of non-increasing ups, and of two cards with equal
\* ups the one whose key the scan met first comes first.
C2_Ordering ==
    \A k \in DOMAIN outs : \A i, j \in DOMAIN outs[k] :
        i < j =>
            /\ outs[k][i].ups >= outs[k][j].ups
            /\ outs[k][i].ups = outs[k][j].ups =>
                  FirstEncounter(comments, outs[k][i].id) < FirstEncounter(comments, outs[k][j].id)

\* an invocation returned two cards with equal ups, and another pair that the sort
\* had to bring into order is covered by the runs with unequal ups
C2_Witness ==
    \E k \in DOMAIN outs : \E i, j \in DOMAIN outs[k] :
        /\ i < j
        /\ outs[k][i].ups = outs[k][j].ups
        /\ outs[k][i].ups > 0

\* the distinct phrases met for the key, in the order the scan meets them
ObservedPhrases(cs, key) ==
    Dedupe(SelectNonEmpty([i \in DOMAIN ScanPhrases(cs) |->
                              IF ScanKeys(cs)[i] = key THEN ScanPhrases(cs)[i] ELSE <<>>]))

\* the first of the shortest phrases of obs
FirstShortest(obs) ==
    obs[CHOOSE i \in DOMAIN obs :
            /\ \A j \in DOMAIN obs : Len(obs[i]) <= Len(obs[j])
            /\ \A j \in 1..(i - 1) : Len(obs[j]) > Len(obs[i])]

\* C5: a card's picks is a phrase of minimal length among the phrases met for its
\* key, and among several of minimal length the one met first.
C5_DisplayPhrase ==
    \A k \in DOMAIN outs : \A j \in DOMAIN outs[k] :
        outs[k][j].picks = FirstShortest(ObservedPhrases(comments, outs[k][j].id))

----------------------------------------------------------------------------
(* Properties of the server (SpecServe, FairServe)                          *)

\* C3: a read that runs while a refresh writes comments.json never observes a
\* partially written snapshot: what a request has read is a complete snapshot
\* (leaving aside the requests that met a file already broken on disk).
C3_AtomicSnapshot ==
    (rpc \in {"parse", "done"} /\ rfound = "ok" /\ ~rdamaged) => rbuf \in Snapshots

\* C4: a request that finds comments.json unreadable (it cannot be opened) or
\* corrupt (what it reads is not valid JSON) ends in an error response, never in
\* a successful response with an empty list.
C4_CorruptIsError ==
    (rpc = "done" /\ (rfound = "denied" \/ (rfound = "ok" /\ ~Load(rbuf).ok))) =>
        /\ resp.status = 500
        /\ ~(resp.status = 200 /\ resp.comments = <<>>)

\* a request has read a snapshot that lay broken on disk and has been answered
C4_Witness ==
    /\ rpc = "done"
    /\ rfound = "ok"
    /\ rdamaged
    /\ ~Load(rbuf).ok
    /\ resp.status = 500

\* the comments (kind t1) of a tree of listings, at every depth
RECURSIVE NodesOfChildren(_)
NodesOfChildren(cs) ==
    IF cs = <<>> THEN <<>>
    ELSE (IF Head(cs).kind = "t1" THEN <<Head(cs)>> ELSE <<>>)
         \o (IF Head(cs).replies.kind = "Listing"
             THEN NodesOfChildren(Head(cs).replies.children) ELSE <<>>)
         \o NodesOfChildren(Tail(cs))

RECURSIVE NodesOf(_)
NodesOf(listings) ==
    IF listings = <<>> THEN <<>>
    ELSE NodesOfChildren(Head(listings).children) \o NodesOf(Tail(listings))

PicksOfBody(body) == individual_picks(extract_picks_and_notes(body))

\* C6: every comment of the loaded tree whose body yields a pick, top-level or
\* nested at any depth and whatever its parent's body holds, contributes its
\* votes and author to the card of each key of its picks; a comment without picks
\* contributes to no card.
C6_AllCommentsContribute ==
    (rpc = "done" /\ rfound = "ok" /\ resp.status = 200) =>
        \A n \in Range(NodesOf(Load(rbuf).val)) :
            IF extract_picks_and_notes(n.body).picks # <<>>
            THEN \A ph \in Range(PicksOfBody(n.body)) :
                    \E c \in Range(resp.comments) :
                        /\ c.id = normalize_pick(ph)
                        /\ n.author \in Range(c.contributors)
                        /\ c.ups >= n.ups
            ELSE \A c \in Range(resp.comments) : n.author \notin Range(c.contributors)

\* C10: a refresh that fails at the fetch leaves comments.json as it was and
\* returns False, and the scraper thread makes a further attempt after it.
C10_FailedFetch ==
    /\ [][(spc = "fetch" /\ spc' = "sleep") =>
             (file' = file /\ fmode' = fmode /\ damaged' = damaged /\ sres' = "False")]_vars
    /\ ((spc = "sleep" /\ sres = "False") ~> (spc = "fetch"))

\* the last attempt failed at the fetch and the snapshot on disk is whole
C10_Witness ==
    /\ spc = "sleep"
    /\ sres = "False"
    /\ fmode = "ok"
    /\ ~damaged
    /\ file \in Snapshots

====
